---- MODULE Spec2Model ----
(***************************************************************************)
(* Model of the OpenWhisk router administration action (router.js):        *)
(* list / map / unmap of Cloud Foundry routes for one application.         *)
(*                                                                         *)
(* JavaScript values are modelled as records [t, v]: t is the JS type tag  *)
(* and v a sequence (the characters of a string, the elements of an        *)
(* array, the <<org, space>> fields of a route request object).            *)
(* A JS Set is modelled as a duplicate-free sequence in insertion order.   *)
(***************************************************************************)
EXTENDS Integers, Sequences, FiniteSets, TLC

\* ------------------------------------------------------------------ values

Undef == [t |-> "undefined", v |-> <<>>]
Null == [t |-> "null", v |-> <<>>]
True == [t |-> "true", v |-> <<>>]
Number(digits) == [t |-> "number", v |-> digits]
Obj == [t |-> "object", v |-> <<>>]
Str(s) == [t |-> "string", v |-> s]
Arr(a) == [t |-> "array", v |-> a]
Pair(o, s) == [t |-> "pair", v |-> <<o, s>>]

\* JS truthiness (!x is ~Truthy(x))
Truthy(x) ==
    CASE x.t = "undefined" -> FALSE
      [] x.t = "null" -> FALSE
      [] x.t = "string" -> x.v /= <<>>
      [] x.t = "number" -> x.v /= <<"0">>
      [] OTHER -> TRUE

\* JS typeof
TypeOf(x) ==
    CASE x.t \in {"null", "array", "pair", "object"} -> "object"
      [] x.t = "true" -> "boolean"
      [] OTHER -> x.t

IsArray(x) == x.t = "array"

\* ----------------------------------------------------------------- strings

Alnum ==
    {"0", "1", "2", "3", "4", "5", "6", "7", "8", "9",
     "a", "b", "c", "d", "e", "f", "g", "h", "i", "j", "k", "l", "m",
     "n", "o", "p", "q", "r", "s", "t", "u", "v", "w", "x", "y", "z",
     "A", "B", "C", "D", "E", "F", "G", "H", "I", "J", "K", "L", "M",
     "N", "O", "P", "Q", "R", "S", "T", "U", "V", "W", "X", "Y", "Z"}

Whitespace == {" "}

RECURSIVE TrimLeft(_)
TrimLeft(s) ==
    IF s /= <<>> /\ Head(s) \in Whitespace THEN TrimLeft(Tail(s)) ELSE s

RECURSIVE TrimRight(_)
TrimRight(s) ==
    IF s /= <<>> /\ s[Len(s)] \in Whitespace
    THEN TrimRight(SubSeq(s, 1, Len(s) - 1))
    ELSE s

\* String.prototype.trim
Trim(s) == TrimRight(TrimLeft(s))

Range(seq) == {seq[i] : i \in 1..Len(seq)}

\* ----------------------------------------------------------------- JS Set

\* new Set(iterable): first occurrences, in insertion order
RECURSIVE NewSet(_)
NewSet(seq) ==
    IF seq = <<>> THEN <<>>
    ELSE LET init == NewSet(SubSeq(seq, 1, Len(seq) - 1))
             last == seq[Len(seq)]
         IN IF last \in Range(init) THEN init ELSE Append(init, last)

\* Set.prototype.has
SetHas(set, x) == x \in Range(set)

\* Set.prototype.delete
SetDelete(set, x) == SelectSeq(set, LAMBDA y : y /= x)

\* the .length property of a Set object: a Set has .size, and no .length
SetLength(set) == Undef

\* JS loose inequality x != 0, for the values the validators compare with 0
NotEqualZero(x) ==
    CASE x.t = "number" -> x.v /= <<"0">>
      [] x.t = "string" -> x.v \notin {<<>>, <<"0">>}
      [] OTHER -> TRUE

\* -------------------------------------------------------------- validators

E_endpoint == "\"endpoint\" not defined, must be string."
E_token == "\"token\" not defined, must be object containing access/refresh token."
E_appname == "\"appname\" not defined, must be string."
E_orgSpace == "\"org\" and \"space\" must both be defined if either is defined."
E_mapRoutesNotArray == "\"routes\" not defined, must be array containing org and space names as strings."
E_noValidRoutes == "\"routes\" does not contain any valid route names to map (org/space must be in [0-9a-zA-Z] and no more than 62 chracter total)."
E_orgSpaceOrRoutes == "either \"org\" & \"space\" must be defined or \"routes\" must be defined to map routes."
E_unmapRoutesNotArray == "\"routes\" not defined, must be array containing route names as strings."
E_noRoutes == "\"routes\" does not contain any route names to unmap."
E_TypeError == "TypeError"

ValidationErrors ==
    {E_endpoint, E_token, E_appname, E_orgSpace, E_mapRoutesNotArray, E_noValidRoutes,
     E_orgSpaceOrRoutes, E_unmapRoutesNotArray, E_noRoutes, E_TypeError}

\* longest combined "org-space" name the map validator keeps
MaxRouteLen == 63

\* a validator's promise: rejected with err, or resolved with the requested
\* set; args is the caller's argument object as the validator leaves it
Rejected(err, args) == [ok |-> FALSE, err |-> err, set |-> <<>>, args |-> args]
Resolved(set, args) == [ok |-> TRUE, err |-> "", set |-> set, args |-> args]

\* !x || typeof x !== 'string' || !x.trim()
NotNonBlankString(x) ==
    \/ ~Truthy(x)
    \/ TypeOf(x) /= "string"
    \/ Trim(x.v) = <<>>

\* the error validateArgsBasic rejects with, "" when it resolves
validateArgsBasic(args) ==
    IF NotNonBlankString(args.endpoint) THEN E_endpoint
    ELSE IF ~Truthy(args.token) \/ TypeOf(args.token) /= "object" THEN E_token
    ELSE IF NotNonBlankString(args.appname) THEN E_appname
    ELSE ""

\* (typeof str === 'string') && (str.match(/^[0-9a-zA-Z]+$/) != null)
validRouteSegment(str) ==
    /\ TypeOf(str) = "string"
    /\ str.v /= <<>>
    /\ \A i \in 1..Len(str.v) : str.v[i] \in Alnum

\* r.org and r.space of an element of args.routes (undefined on a non-object)
OrgOf(r) == IF r.t = "pair" THEN r.v[1] ELSE Undef
SpaceOf(r) == IF r.t = "pair" THEN r.v[2] ELSE Undef

\* reading a property of null or undefined throws a TypeError
ThrowsOnProperty(r) == r.t \in {"null", "undefined"}

\* org+'-'+space
JoinRoute(r) == OrgOf(r).v \o <<"-">> \o SpaceOf(r).v

\* mutant: names of 63 characters are dropped too
CandidateRoutesShorter(routes) ==
    LET valid == SelectSeq(routes, LAMBDA r : validRouteSegment(OrgOf(r)) /\ validRouteSegment(SpaceOf(r)))
        joined == [i \in 1..Len(valid) |-> JoinRoute(valid[i])]
    IN SelectSeq(joined, LAMBDA h : Len(h) < MaxRouteLen)

\* args.routes.filter(valid).map(join).filter(length <= 63)
CandidateRoutes(routes) ==
    LET valid == SelectSeq(routes, LAMBDA r : validRouteSegment(OrgOf(r)) /\ validRouteSegment(SpaceOf(r)))
        joined == [i \in 1..Len(valid) |-> JoinRoute(valid[i])]
    IN SelectSeq(joined, LAMBDA h : Len(h) <= MaxRouteLen)

validateArgsForMapRoutes(args) ==
    IF validateArgsBasic(args) /= "" THEN Rejected(validateArgsBasic(args), args)
    ELSE IF \/ (Truthy(args.org) /\ ~Truthy(args.space))
            \/ (Truthy(args.space) /\ ~Truthy(args.org))
    THEN Rejected(E_orgSpace, args)
    ELSE IF (Truthy(args.org) /\ Truthy(args.space)) \/ Truthy(args.routes)
    THEN IF Truthy(args.routes) /\ ~IsArray(args.routes)
         THEN Rejected(E_mapRoutesNotArray, args)
         ELSE LET base == IF Truthy(args.routes) THEN args.routes ELSE Arr(<<>>)
                  args2 == IF Truthy(args.org) /\ Truthy(args.space)
                           THEN [args EXCEPT !.routes = Arr(Append(base.v, Pair(args.org, args.space)))]
                           ELSE args
                  routes == args2.routes.v
              IN IF \E i \in 1..Len(routes) : ThrowsOnProperty(routes[i])
                 THEN Rejected(E_TypeError, args2)
                 ELSE LET requestedRouteAdditions == NewSet(CandidateRoutes(routes))
                      IN IF NotEqualZero(SetLength(requestedRouteAdditions))
                         THEN Resolved(requestedRouteAdditions, args2)
                         ELSE Rejected(E_noValidRoutes, args2)
    ELSE Rejected(E_orgSpaceOrRoutes, args)

\* r.trim() throws a TypeError when r is not a string
ThrowsOnTrim(r) == r.t /= "string"

\* args.routes.map(r => r.trim()).filter(r => r != '')
TrimmedRoutes(routes) ==
    LET trimmed == [i \in 1..Len(routes) |-> Trim(routes[i].v)]
    IN SelectSeq(trimmed, LAMBDA h : h /= <<>>)

validateArgsForUnmapRoutes(args) ==
    IF validateArgsBasic(args) /= "" THEN Rejected(validateArgsBasic(args), args)
    ELSE IF ~Truthy(args.routes) \/ ~IsArray(args.routes)
    THEN Rejected(E_unmapRoutesNotArray, args)
    ELSE IF \E i \in 1..Len(args.routes.v) : ThrowsOnTrim(args.routes.v[i])
    THEN Rejected(E_TypeError, args)
    ELSE LET requestedRouteDeletions == NewSet(TrimmedRoutes(args.routes.v))
         IN IF NotEqualZero(SetLength(requestedRouteDeletions))
            THEN Resolved(requestedRouteDeletions, args)
            ELSE Rejected(E_noRoutes, args)

\* list validates with validateArgsBasic alone
validateArgsForList(args) ==
    IF validateArgsBasic(args) /= "" THEN Rejected(validateArgsBasic(args), args)
    ELSE Resolved(<<>>, args)

\* the validator each entry point starts with
Validator(o, args) ==
    CASE o = "map" -> validateArgsForMapRoutes(args)
      [] o = "unmap" -> validateArgsForUnmapRoutes(args)
      [] OTHER -> validateArgsForList(args)

\* ------------------------------------------------------------ route differ

NoGuid == <<>>

\* a route resource of the platform: metadata.guid, entity.host,
\* entity.domain_guid, entity.space_guid
RouteRecord(host, domain, space) ==
    [guid |-> host \o <<"@">> \o domain, host |-> host, domain_guid |-> domain, space_guid |-> space]

Hosts(routes) == {routes[i].host : i \in 1..Len(routes)}

\* mutant: the ids of the last live route, whatever its host
PrimaryIdAny(routes, appname, f) ==
    IF routes = <<>> THEN NoGuid ELSE routes[Len(routes)][f]

\* mutant: the ids of the first live route, whatever its host
PrimaryIdFirst(routes, appname, f) ==
    IF routes = <<>> THEN NoGuid ELSE routes[1][f]

\* the guid field `f` of the last route whose host is the application name
RECURSIVE PrimaryId(_, _, _)
PrimaryId(routes, appname, f) ==
    IF routes = <<>> THEN NoGuid
    ELSE IF routes[Len(routes)].host = appname THEN routes[Len(routes)][f]
    ELSE PrimaryId(SubSeq(routes, 1, Len(routes) - 1), appname, f)

\* mutant: only the first live route is looked at
NotLiveFirstOnly(routes, requestedRouteAdditions) ==
    SelectSeq(requestedRouteAdditions, LAMBDA h : routes = <<>> \/ h /= routes[1].host)

\* mutant: additions already live are not removed from routesToAdd
NotLiveUnfiltered(routes, requestedRouteAdditions) == requestedRouteAdditions

NotLive(routes, requestedRouteAdditions) ==
    SelectSeq(requestedRouteAdditions, LAMBDA h : h \notin Hosts(routes))

\* mutant: every live route is scheduled for deletion
filterDeleteAll(routes, appname, requestedRouteAdditions, requestedRouteDeletions) ==
    [domain_guid |-> PrimaryId(routes, appname, "domain_guid"),
     space_guid |-> PrimaryId(routes, appname, "space_guid"),
     routesToAdd |-> NotLive(routes, requestedRouteAdditions),
     routesToDelete |-> routes]

filterAddDeleteAndGetIds(routes, appname, requestedRouteAdditions, requestedRouteDeletions) ==
    [domain_guid |-> PrimaryId(routes, appname, "domain_guid"),
     space_guid |-> PrimaryId(routes, appname, "space_guid"),
     routesToAdd |-> NotLive(routes, requestedRouteAdditions),
     routesToDelete |-> SelectSeq(routes, LAMBDA r : SetHas(requestedRouteDeletions, r.host))]

\* ---------------------------------------------------------------- requests

Args(endpoint, token, appname, org, space, routes, deleteAfterUnmap) ==
    [endpoint |-> endpoint, token |-> token, appname |-> appname, org |-> org,
     space |-> space, routes |-> routes, deleteAfterUnmap |-> deleteAfterUnmap]

Endpoint == Str(<<"e">>)
AppName == <<"m">>
HostAB == <<"a", "-", "b">>
HostCD == <<"c", "-", "d">>
HostXY == <<"x", "-", "y">>
SegA == Str(<<"a">>)
SegB == Str(<<"b">>)
SegC == Str(<<"c">>)
SegD == Str(<<"d">>)

\* segments of 31 and 32 characters: 31 + 1 + 31 = 63, 31 + 1 + 32 = 64
Seg31 == Str([i \in 1..31 |-> "k"])
Seg32 == Str([i \in 1..32 |-> "k"])

MapArgs(org, space, routes) == Args(Endpoint, Obj, Str(AppName), org, space, routes, Undef)
UnmapArgs(routes, deleteAfterUnmap) ==
    Args(Endpoint, Obj, Str(AppName), Undef, Undef, routes, deleteAfterUnmap)

MapRequests ==
    {MapArgs(SegA, SegB, Undef),
     MapArgs(Undef, Undef, Arr(<<Pair(SegA, SegB), Pair(SegC, SegD)>>)),
     MapArgs(SegC, SegD, Arr(<<Pair(SegA, SegB)>>)),
     MapArgs(Undef, Undef, Arr(<<Pair(SegA, SegB), Pair(SegA, SegB)>>)),
     MapArgs(Undef, Undef, Undef),
     MapArgs(SegA, Undef, Undef),
     MapArgs(Str(<<>>), SegB, Arr(<<Pair(SegC, SegD)>>)),
     MapArgs(Str(<<"a", "b", "c">>), Str(<<"d", " ", "e">>), Undef),
     MapArgs(Undef, Undef, Arr(<<Pair(Seg31, Seg32)>>)),
     MapArgs(Seg31, Seg31, Arr(<<Pair(Seg31, Seg32)>>)),
     MapArgs(Seg32, Seg31, Arr(<<Pair(Seg31, Seg31)>>)),
     MapArgs(Undef, Undef, Arr(<<Pair(Seg31, Seg32), Pair(SegA, SegB), Str(HostCD)>>)),
     MapArgs(Undef, Undef, Arr(<<>>)),
     MapArgs(Undef, Undef, Str(HostAB)),
     MapArgs(Undef, Undef, Arr(<<Pair(SegA, SegB), Null>>)),
     MapArgs(Number(<<"5">>), SegB, Undef),
     Args(Undef, Obj, Str(AppName), SegA, SegB, Undef, Undef),
     Args(Endpoint, Str(<<"t">>), Str(AppName), SegA, SegB, Undef, Undef),
     Args(Endpoint, Obj, Str(<<" ">>), SegA, SegB, Undef, Undef)}

UnmapRequests ==
    {UnmapArgs(Arr(<<Str(HostAB)>>), Undef),
     UnmapArgs(Arr(<<Str(HostAB)>>), True),
     UnmapArgs(Arr(<<Str(HostAB)>>), Str(<<"t", "r", "u", "e">>)),
     UnmapArgs(Arr(<<Str(<<" ">> \o HostAB \o <<" ">>), Str(HostXY), Str(HostAB)>>), Undef),
     UnmapArgs(Arr(<<Str(HostCD), Str(AppName)>>), True),
     UnmapArgs(Arr(<<>>), Undef),
     UnmapArgs(Arr(<<Str(<<" ", " ">>)>>), True),
     UnmapArgs(Undef, Undef),
     UnmapArgs(Str(HostAB), True),
     UnmapArgs(Arr(<<Str(HostAB), Number(<<"5">>)>>), Undef),
     Args(Endpoint, Undef, Str(AppName), Undef, Undef, Arr(<<Str(HostAB)>>), True)}

ListRequests ==
    {Args(Endpoint, Obj, Str(AppName), Undef, Undef, Undef, Undef),
     Args(Str(<<" ">>), Obj, Str(AppName), Undef, Undef, Undef, Undef),
     Args(Endpoint, Obj, Undef, Undef, Undef, Undef, Undef)}

Requests(o) ==
    CASE o = "map" -> MapRequests
      [] o = "unmap" -> UnmapRequests
      [] OTHER -> ListRequests

Ops == {"list", "map", "unmap"}

\* ------------------------------------------------------------------- state

VARIABLES
    pc,           \* position of the invocation's promise chain
    op,           \* entry point invoked: "list", "map" or "unmap"
    request,      \* the argument object as the caller passed it
    args,         \* the argument object as the action holds it
    requested,    \* requestedRouteAdditions / requestedRouteDeletions (a JS Set)
    snapshot,     \* routes.resources returned by Apps.getAppRoutes
    ids,          \* <<domain_guid, space_guid>> found by the differ
    todo,         \* routes of the executor's input not yet processed
    route,        \* <<route>> created or found for the host being added, else <<>>
    list,         \* the executor's list of {route, ok}
    output,       \* what the invocation resolved with (status or routes)
    error,        \* what the invocation rejected with
    calls,        \* remote calls issued by this invocation and their outcomes, in order
    platform,     \* the platform's route records
    bound,        \* guids of the routes associated with the application, in order
    before,       \* the platform's route records when the invocation started
    boundBefore,  \* the application's routes when the invocation started
    pending,      \* remote calls issued and not yet answered
    invocations,  \* invocations started so far
    prevMap,      \* <<request>> of the preceding invocation if it was a map with no failing call
    outOfBand     \* route records other actors created since the invocation listed the routes

vars ==
    <<pc, op, request, args, requested, snapshot, ids, todo, route, list, output,
      error, calls, platform, bound, before, boundBefore, pending, invocations, prevMap, outOfBand>>

remote == <<platform, bound>>

\* successive invocations of the actions
MaxInvocations == 2
\* most application records the platform returns for one name
MaxApps == 2

AppGuid == <<"app">>
E_remote == "remote error"
E_appNotFound == "App not found."

\* a remote call and its outcome: res is "ok", "error", the conflict code, or
\* for a query "none" / "many" records; guid is the route guid passed, or the
\* guid of the first record a query returned
Call(fn, host, guid, domain, space, res) ==
    [fn |-> fn, host |-> host, guid |-> guid, domain_guid |-> domain,
     space_guid |-> space, res |-> res]

\* a remote call issued and not yet answered
Sent(fn, host, guid, domain, space) == Call(fn, host, guid, domain, space, "pending")

\* the call at the head of pending is answered
Answered(fn) == pending /= <<>> /\ Head(pending).fn = fn

Entry(host, ok) == [route |-> host, ok |-> ok]

\* some remote call of the invocation failed
Failed == \E i \in 1..Len(calls) : calls[i].res /= "ok"

\* ---------------------------------------------------------------- platform

D1 == <<"D1">>
D2 == <<"D2">>
S1 == <<"S1">>
S2 == <<"S2">>

InitialRoutes ==
    {RouteRecord(AppName, D1, S1),
     RouteRecord(HostAB, D1, S1),
     RouteRecord(HostAB, D2, S2)}

Guids(routes) == {r.guid : r \in routes}

\* the arrangements of the guids of a set of routes
Arrangements(G) ==
    {q \in UNION {[1..n -> G] : n \in 0..Cardinality(G)} :
        \A i, j \in 1..Len(q) : i /= j => q[i] /= q[j]}

RouteOf(guid) == CHOOSE r \in platform : r.guid = guid

\* the application's routes, as Apps.getAppRoutes lists them
AppRoutes == [i \in 1..Len(bound) |-> RouteOf(bound[i])]

Init ==
    /\ pc = "idle"
    /\ op = "list"
    /\ request = Args(Undef, Undef, Undef, Undef, Undef, Undef, Undef)
    /\ args = request
    /\ requested = <<>>
    /\ snapshot = <<>>
    /\ ids = <<NoGuid, NoGuid>>
    /\ todo = <<>>
    /\ route = <<>>
    /\ list = <<>>
    /\ output = <<>>
    /\ error = ""
    /\ calls = <<>>
    /\ platform \in SUBSET InitialRoutes
    /\ bound \in Arrangements(Guids(platform))
    /\ before = platform
    /\ boundBefore = bound
    /\ pending = <<>>
    /\ invocations = 0
    /\ prevMap = <<>>
    /\ outOfBand = {}

\* ------------------------------------------------------------ entry points

\* list(args), mapRoutes(args) or unmapRoutes(args) is called
Invoke(o, a) ==
    /\ pc \in {"idle", "done", "rejected"}
    /\ invocations < MaxInvocations
    /\ invocations' = invocations + 1
    /\ prevMap' = IF pc = "done" /\ op = "map" /\ ~Failed THEN <<request>> ELSE <<>>
    /\ before' = platform
    /\ outOfBand' = {}
    /\ boundBefore' = bound
    /\ pending' = <<>>
    /\ op' = o
    /\ request' = a
    /\ args' = a
    /\ pc' = "validate"
    /\ requested' = <<>>
    /\ snapshot' = <<>>
    /\ ids' = <<NoGuid, NoGuid>>
    /\ todo' = <<>>
    /\ route' = <<>>
    /\ list' = <<>>
    /\ output' = <<>>
    /\ error' = ""
    /\ calls' = <<>>
    /\ UNCHANGED remote

\* mutant: the application lookup starts whatever the validator answers
ValidateUnchecked ==
    /\ pc = "validate"
    /\ LET v == Validator(op, args)
       IN /\ args' = v.args
          /\ requested' = v.set
          /\ error' = v.err
          /\ pc' = "getApps"
          /\ pending' = <<Sent("Apps.getApps", v.args.appname.v, NoGuid, NoGuid, NoGuid)>>
    /\ UNCHANGED <<op, request, snapshot, ids, todo, route, list, output, calls,
                   remote, before, boundBefore, invocations, prevMap, outOfBand>>

\* the validator's promise settles; on success the action goes on to
\* getCfClients and getAppRoutes
Validate ==
    /\ pc = "validate"
    /\ LET v == Validator(op, args)
       IN /\ args' = v.args
          /\ requested' = v.set
          /\ error' = v.err
          /\ pc' = IF v.ok THEN "getApps" ELSE "rejected"
          /\ pending' = IF v.ok
                        THEN <<Sent("Apps.getApps", v.args.appname.v, NoGuid, NoGuid, NoGuid)>>
                        ELSE <<>>
    /\ UNCHANGED <<op, request, snapshot, ids, todo, route, list, output, calls,
                   remote, before, boundBefore, invocations, prevMap, outOfBand>>

\* the whole invocation rejects with err
Reject(err) ==
    /\ pc' = "rejected"
    /\ error' = err
    /\ pending' = Tail(pending)
    /\ UNCHANGED <<op, request, args, requested, snapshot, ids, todo, route, list,
                   output, remote, before, boundBefore, invocations, prevMap, outOfBand>>

\* mutant: any non-empty answer is taken for the application
FoundSomeApp(n) == n >= 1

\* result.resources.length == 1
FoundOneApp(n) == n = 1

\* how many records a query returned, as the call log keeps it
Count(n) == IF n = 0 THEN "none" ELSE IF n = 1 THEN "ok" ELSE "many"

\* getAppRoutes: Apps.getApps({q: name:appname}) fails, or returns n records
GetApps ==
    /\ pc = "getApps"
    /\ Answered("Apps.getApps")
    /\ \/ /\ calls' = Append(calls, Call("Apps.getApps", args.appname.v, NoGuid, NoGuid, NoGuid, "error"))
          /\ Reject(E_remote)
       \/ \E n \in 0..MaxApps :
            /\ calls' = Append(calls, Call("Apps.getApps", args.appname.v, NoGuid, NoGuid, NoGuid, Count(n)))
            /\ IF FoundOneApp(n)
               THEN /\ pc' = "getAppRoutes"
                    /\ pending' = Tail(pending) \o
                          <<Sent("Apps.getAppRoutes", <<>>, AppGuid, NoGuid, NoGuid)>>
                    /\ UNCHANGED <<op, request, args, requested, snapshot, ids, todo, route,
                                   list, output, error, remote, before, boundBefore, invocations, prevMap, outOfBand>>
               ELSE Reject(E_appNotFound)

\* mutant: the branches of the conditional are swapped
DeletesRouteSwapped(deleteAfterUnmap) == deleteAfterUnmap.t /= "true"

\* deleteAfterUnmap === true
DeletesRoute(deleteAfterUnmap) == deleteAfterUnmap.t = "true"

\* the call the executor issues for an element of its input: Routes.add for
\* a host to add; Routes.remove or Apps.unassociateRoute for a route to delete
ElementCall(o, x, domain, space, deleteAfterUnmap) ==
    IF o = "map" THEN Sent("Routes.add", x, NoGuid, domain, space)
    ELSE Sent(IF DeletesRoute(deleteAfterUnmap) THEN "Routes.remove" ELSE "Apps.unassociateRoute",
              x.host, x.guid, NoGuid, NoGuid)

\* mutant: the calls for all the elements are issued at once
ExecutorCallsAll(o, input, domain, space, deleteAfterUnmap) ==
    [i \in 1..Len(input) |-> ElementCall(o, input[i], domain, space, deleteAfterUnmap)]

\* the calls issued when the reduce turns to the rest of its input: the call
\* for its first element, inside the then handler of the list so far
ExecutorCalls(o, input, domain, space, deleteAfterUnmap) ==
    IF input = <<>> THEN <<>>
    ELSE <<ElementCall(o, Head(input), domain, space, deleteAfterUnmap)>>

\* where the executor starts on its input
ExecutorPc(o, input) ==
    IF input = <<>> THEN "report"
    ELSE IF o = "map" THEN "create" ELSE "remove"

\* the differ as mapRoutes and unmapRoutes call it: the requested set is the
\* additions in map and the deletions in unmap, the other set is new Set()
Differ(o, routes, appname, set) ==
    IF o = "map"
    THEN filterAddDeleteAndGetIds(routes, appname, set, <<>>)
    ELSE filterAddDeleteAndGetIds(routes, appname, <<>>, set)

\* the executor's input: routesToAdd in map, routesToDelete in unmap
ExecutorInput(o, routes, appname, set) ==
    IF o = "map"
    THEN Differ(o, routes, appname, set).routesToAdd
    ELSE Differ(o, routes, appname, set).routesToDelete

\* getAppRoutes: Apps.getAppRoutes(app_guid) fails, or returns the live routes,
\* and the entry point's handler runs on them
GetAppRoutes ==
    /\ pc = "getAppRoutes"
    /\ Answered("Apps.getAppRoutes")
    /\ \/ /\ calls' = Append(calls, Call("Apps.getAppRoutes", <<>>, AppGuid, NoGuid, NoGuid, "error"))
          /\ Reject(E_remote)
       \/ /\ calls' = Append(calls, Call("Apps.getAppRoutes", <<>>, AppGuid, NoGuid, NoGuid, "ok"))
          /\ snapshot' = AppRoutes
          /\ IF op = "list"
             THEN /\ output' = [i \in 1..Len(AppRoutes) |-> AppRoutes[i].host]
                  /\ pc' = "done"
                  /\ pending' = Tail(pending)
                  /\ UNCHANGED <<ids, todo>>
             ELSE LET f == Differ(op, AppRoutes, args.appname.v, requested)
                      input == ExecutorInput(op, AppRoutes, args.appname.v, requested)
                  IN /\ ids' = <<f.domain_guid, f.space_guid>>
                     /\ todo' = input
                     /\ pc' = ExecutorPc(op, input)
                     /\ pending' = Tail(pending) \o
                           ExecutorCalls(op, input, f.domain_guid, f.space_guid, args.deleteAfterUnmap)
                     /\ UNCHANGED output
          /\ UNCHANGED <<op, request, args, requested, route, list, error, remote,
                         before, boundBefore, invocations, prevMap, outOfBand>>

\* ------------------------------------------------------- mutation executor

\* mutant: the first failure ends the batch
RecordAborting(host, ok) ==
    /\ list' = Append(list, Entry(host, ok))
    /\ todo' = IF ok THEN Tail(todo) ELSE <<>>
    /\ route' = <<>>
    /\ pc' = IF ok THEN ExecutorPc(op, Tail(todo)) ELSE "report"
    /\ pending' = Tail(pending) \o
          (IF ok THEN ExecutorCalls(op, Tail(todo), ids[1], ids[2], args.deleteAfterUnmap) ELSE <<>>)

\* mutant: a failure is not caught and rejects the invocation
RecordPropagating(host, ok) ==
    /\ list' = IF ok THEN Append(list, Entry(host, ok)) ELSE list
    /\ todo' = IF ok THEN Tail(todo) ELSE todo
    /\ route' = <<>>
    /\ pc' = IF ok THEN ExecutorPc(op, Tail(todo)) ELSE "rejected"
    /\ pending' = Tail(pending) \o
          (IF ok THEN ExecutorCalls(op, Tail(todo), ids[1], ids[2], args.deleteAfterUnmap) ELSE <<>>)

\* mutant: every route is recorded as a success
RecordAlwaysOk(host, ok) ==
    /\ list' = Append(list, Entry(host, TRUE))
    /\ todo' = Tail(todo)
    /\ route' = <<>>
    /\ pc' = ExecutorPc(op, Tail(todo))
    /\ pending' = Tail(pending) \o
          ExecutorCalls(op, Tail(todo), ids[1], ids[2], args.deleteAfterUnmap)

\* the executor records {route: host, ok} and turns to its next input
Record(host, ok) ==
    /\ list' = Append(list, Entry(host, ok))
    /\ todo' = Tail(todo)
    /\ route' = <<>>
    /\ pc' = ExecutorPc(op, Tail(todo))
    /\ pending' = Tail(pending) \o
          ExecutorCalls(op, Tail(todo), ids[1], ids[2], args.deleteAfterUnmap)

\* what the platform can answer to Routes.add({domain_guid, space_guid, host})
CreateOutcomes(domain, space, host) ==
    IF domain = NoGuid \/ space = NoGuid THEN {"error"}
    ELSE IF \E r \in platform : r.host = host /\ r.domain_guid = domain
    THEN {"CF-RouteHostTaken", "error"}
    ELSE {"ok", "error"}

\* mutant: every failure of Routes.add is taken for the conflict
IsHostTakenAnyError(outcome) == outcome /= "ok"

\* mutant: the conflict code is never recognised
IsHostTakenNever(outcome) == FALSE

\* error.error_code == "CF-RouteHostTaken"
IsHostTaken(outcome) == outcome = "CF-RouteHostTaken"

\* addRoutes: Routes.add for the next host, and the handlers of its outcome
RoutesAdd ==
    /\ pc = "create"
    /\ Answered("Routes.add")
    /\ LET nextToAdd == Head(todo)
       IN \E outcome \in CreateOutcomes(ids[1], ids[2], nextToAdd) :
            /\ calls' = Append(calls, Call("Routes.add", nextToAdd, NoGuid, ids[1], ids[2], outcome))
            /\ IF outcome = "ok"
               THEN /\ platform' = platform \cup {RouteRecord(nextToAdd, ids[1], ids[2])}
                    /\ route' = <<RouteRecord(nextToAdd, ids[1], ids[2])>>
                    /\ pc' = "associate"
                    /\ pending' = Tail(pending) \o
                          <<Sent("Apps.associateRoute", nextToAdd,
                                 RouteRecord(nextToAdd, ids[1], ids[2]).guid, NoGuid, NoGuid)>>
                    /\ UNCHANGED <<list, todo>>
               ELSE IF IsHostTaken(outcome)
               THEN /\ pc' = "find"
                    /\ pending' = Tail(pending) \o
                          <<Sent("Routes.getRoutes", nextToAdd, NoGuid, NoGuid, NoGuid)>>
                    /\ UNCHANGED <<list, todo, route, platform>>
               ELSE /\ Record(nextToAdd, FALSE)
                    /\ UNCHANGED platform
    /\ UNCHANGED <<op, request, args, requested, snapshot, ids, output, error, bound,
                   before, boundBefore, invocations, prevMap, outOfBand>>

\* result.resources[0] of Routes.getRoutes({q: host:h}): <<>> when the lookup
\* lists no route (the holder of the host is not visible to the caller)
LookupOutcomes(host) == {<<>>} \cup {<<r>> : r \in {x \in platform : x.host = host}}

\* addRoutes, conflict recovery: Routes.getRoutes for the host; with no route
\* found, reading route.metadata throws and the host fails
RoutesGetRoutes ==
    /\ pc = "find"
    /\ Answered("Routes.getRoutes")
    /\ LET nextToAdd == Head(todo)
       IN \/ /\ calls' = Append(calls, Call("Routes.getRoutes", nextToAdd, NoGuid, NoGuid, NoGuid, "error"))
             /\ Record(nextToAdd, FALSE)
          \/ \E found \in LookupOutcomes(nextToAdd) :
               IF Len(found) = 0
               THEN /\ calls' = Append(calls, Call("Routes.getRoutes", nextToAdd, NoGuid, NoGuid, NoGuid, "none"))
                    /\ Record(nextToAdd, FALSE)
               ELSE /\ calls' = Append(calls, Call("Routes.getRoutes", nextToAdd, found[1].guid, NoGuid, NoGuid, "ok"))
                    /\ route' = found
                    /\ pc' = "associate"
                    /\ pending' = Tail(pending) \o
                          <<Sent("Apps.associateRoute", nextToAdd, found[1].guid, NoGuid, NoGuid)>>
                    /\ UNCHANGED <<list, todo>>
    /\ UNCHANGED <<op, request, args, requested, snapshot, ids, output, error, remote,
                   before, boundBefore, invocations, prevMap, outOfBand>>

\* the application's routes once guid is associated with it
Associated(guid) == IF guid \in Range(bound) THEN bound ELSE Append(bound, guid)

\* addRoutes: Apps.associateRoute(app_guid, route.metadata.guid)
AppsAssociateRoute ==
    /\ pc = "associate"
    /\ Answered("Apps.associateRoute")
    /\ LET nextToAdd == Head(todo)
           guid == route[1].guid
       IN \/ /\ guid \in Guids(platform)
             /\ calls' = Append(calls, Call("Apps.associateRoute", nextToAdd, guid, NoGuid, NoGuid, "ok"))
             /\ bound' = Associated(guid)
             /\ Record(nextToAdd, TRUE)
          \/ /\ calls' = Append(calls, Call("Apps.associateRoute", nextToAdd, guid, NoGuid, NoGuid, "error"))
             /\ Record(nextToAdd, FALSE)
             /\ UNCHANGED bound
    /\ UNCHANGED <<op, request, args, requested, snapshot, ids, output, error, platform,
                   before, boundBefore, invocations, prevMap, outOfBand>>

Without(seq, guid) == SelectSeq(seq, LAMBDA g : g /= guid)

\* deleteRoutes: Routes.remove(guid) or Apps.unassociateRoute(app_guid, guid)
\* for the next route, and the handlers of its outcome
DeleteRoute ==
    /\ pc = "remove"
    /\ Answered(IF DeletesRoute(args.deleteAfterUnmap) THEN "Routes.remove" ELSE "Apps.unassociateRoute")
    /\ LET nextToDelete == Head(todo)
           destroy == DeletesRoute(args.deleteAfterUnmap)
           fn == IF destroy THEN "Routes.remove" ELSE "Apps.unassociateRoute"
       IN \/ /\ nextToDelete.guid \in Guids(platform)
             /\ calls' = Append(calls, Call(fn, nextToDelete.host, nextToDelete.guid, NoGuid, NoGuid, "ok"))
             /\ platform' = IF destroy
                            THEN {r \in platform : r.guid /= nextToDelete.guid}
                            ELSE platform
             /\ bound' = Without(bound, nextToDelete.guid)
             /\ Record(nextToDelete.host, TRUE)
          \/ /\ calls' = Append(calls, Call(fn, nextToDelete.host, nextToDelete.guid, NoGuid, NoGuid, "error"))
             /\ Record(nextToDelete.host, FALSE)
             /\ UNCHANGED remote
    /\ UNCHANGED <<op, request, args, requested, snapshot, ids, output, error,
                   before, boundBefore, invocations, prevMap, outOfBand>>

\* ---------------------------------------------------------- outcome reporter

\* requested.delete(r.route) for every r of result
RECURSIVE DeleteAll(_, _)
DeleteAll(set, result) ==
    IF result = <<>> THEN set
    ELSE DeleteAll(SetDelete(set, Head(result).route), Tail(result))

\* mutant: left overs are reported as successes in both directions
LeftoverOkAlways(o) == TRUE

\* ok of a left over: success in map, error in unmap
LeftoverOk(o) == o = "map"

\* mutant: the left overs come before the executor's outcomes
WithLeftoversFirst(o, result, leftovers) ==
    [i \in 1..Len(leftovers) |-> Entry(leftovers[i], LeftoverOk(o))] \o result

\* result with the left overs pushed
WithLeftovers(o, result, leftovers) ==
    result \o [i \in 1..Len(leftovers) |-> Entry(leftovers[i], LeftoverOk(o))]

\* mapRoutes / unmapRoutes: the handler of the executor's result
Report ==
    /\ pc = "report"
    /\ requested' = DeleteAll(requested, list)
    /\ output' = WithLeftovers(op, list, DeleteAll(requested, list))
    /\ pc' = "done"
    /\ UNCHANGED <<op, request, args, snapshot, ids, todo, route, list, error, calls, pending,
                   remote, before, boundBefore, invocations, prevMap, outOfBand>>

Next ==
    \/ \E o \in Ops : \E a \in Requests(o) : Invoke(o, a)
    \/ Validate
    \/ GetApps
    \/ GetAppRoutes
    \/ RoutesAdd
    \/ RoutesGetRoutes
    \/ AppsAssociateRoute
    \/ DeleteRoute
    \/ Report

Spec == Init /\ [][Next]_vars

\* ------------------------------------------------------------ other actors

\* route records other actors create while one invocation runs
MaxOutOfBand == 1

\* invocations observed with other actors at work
MaxStaleInvocations == 1

\* while a map invocation works on the routes it listed, another actor (or a
\* concurrent mapRoutes for the same application) calls Routes.add for one of
\* the hostnames still to be processed, in the application's domain; the
\* platform serializes the calls and refuses a host already taken in the
\* domain
OtherRoutesAdd ==
    /\ op = "map"
    /\ pc \in {"create", "find", "associate"}
    /\ Cardinality(outOfBand) < MaxOutOfBand
    /\ \E host \in Range(todo), space \in {S1, S2} :
         /\ "ok" \in CreateOutcomes(ids[1], space, host)
         /\ platform' = platform \cup {RouteRecord(host, ids[1], space)}
         /\ outOfBand' = outOfBand \cup {RouteRecord(host, ids[1], space)}
    /\ UNCHANGED <<pc, op, request, args, requested, snapshot, ids, todo, route, list,
                   output, error, calls, bound, before, boundBefore, pending,
                   invocations, prevMap>>

\* the concurrent mapRoutes goes on to Apps.associateRoute with the route it
\* created
OtherAssociateRoute ==
    /\ op = "map"
    /\ pc \in {"create", "find", "associate"}
    /\ \E r \in outOfBand \cap platform :
         /\ r.guid \notin Range(bound)
         /\ bound' = Associated(r.guid)
    /\ UNCHANGED <<pc, op, request, args, requested, snapshot, ids, todo, route, list,
                   output, error, calls, platform, before, boundBefore, pending,
                   invocations, prevMap, outOfBand>>

NextStale ==
    \/ \E o \in Ops : \E a \in Requests(o) : invocations < MaxStaleInvocations /\ Invoke(o, a)
    \/ Validate
    \/ GetApps
    \/ GetAppRoutes
    \/ RoutesAdd
    \/ RoutesGetRoutes
    \/ AppsAssociateRoute
    \/ DeleteRoute
    \/ Report
    \/ OtherRoutesAdd
    \/ OtherAssociateRoute

SpecStale == Init /\ [][NextStale]_vars

\* ------------------------------------------------------------------ claims

\* the requested set the validator accepted for the caller's request
Accepted == Validator(op, request).set

\* the invocation resolved with { status: ... }
Resolves == pc = "done" /\ op \in {"map", "unmap"}

StatusHosts == {output[i].route : i \in 1..Len(output)}

\* C1: full coverage. When map or unmap resolves, status holds exactly one
\* entry per hostname of the accepted requested set: none missing, none twice,
\* none that was not requested.
FullCoverage ==
    Resolves =>
        /\ StatusHosts = Range(Accepted)
        /\ \A i, j \in 1..Len(output) : output[i].route = output[j].route => i = j

\* the hosts the executor reported on
Executed == {list[i].route : i \in 1..Len(list)}

\* C2: asymmetric leftover policy. When map or unmap resolves, status is the
\* executor's result, unchanged, followed by one entry for each requested
\* hostname the executor has no entry for, with ok = true in map (such a
\* hostname is in the live snapshot) and ok = false in unmap (no live route
\* has it).
LeftoverPolicy ==
    Resolves =>
        /\ Len(output) >= Len(list)
        /\ SubSeq(output, 1, Len(list)) = list
        /\ \A i \in (Len(list) + 1)..Len(output) :
             /\ output[i].route \in Range(Accepted) \ Executed
             /\ output[i].ok = (op = "map")
             /\ (output[i].route \in Hosts(snapshot)) = (op = "map")
        /\ \A h \in Range(Accepted) \ Executed :
             Cardinality({i \in (Len(list) + 1)..Len(output) : output[i].route = h}) = 1

\* map resolved with a failed executed hostname followed by a leftover success
LeftoverPolicyWitness ==
    /\ Resolves
    /\ op = "map"
    /\ list = <<Entry(HostCD, FALSE)>>
    /\ output = <<Entry(HostCD, FALSE), Entry(HostAB, TRUE)>>

\* calls of the invocation to the remote function fn
CallsTo(fn) == {i \in 1..Len(calls) : calls[i].fn = fn}

\* C3: idempotence of add. A map in which no remote call fails reports every
\* requested hostname with ok = true; a map that repeats the request of the
\* preceding map, no call of which failed, issues no Routes.add call and
\* reports every requested hostname with ok = true.
IdempotentAdd ==
    /\ (Resolves /\ op = "map" /\ ~Failed) =>
           \A h \in Range(Accepted) : \E i \in 1..Len(output) : output[i] = Entry(h, TRUE)
    /\ (op = "map" /\ prevMap = <<request>> /\ pc \notin {"idle", "validate"}) =>
           /\ CallsTo("Routes.add") = {}
           /\ pc = "done" =>
                \A h \in Range(Accepted) : \E i \in 1..Len(output) : output[i] = Entry(h, TRUE)

\* map with org and space was repeated, and the second pass reported the
\* hostname org-space as a success without creating it
IdempotentAddWitness ==
    /\ Resolves
    /\ op = "map"
    /\ prevMap = <<request>>
    /\ Truthy(request.org)
    /\ Accepted = <<HostAB>>
    /\ output = <<Entry(HostAB, TRUE)>>
    /\ CallsTo("Routes.add") = {}
    /\ HostAB \in Hosts(snapshot)

\* the entry the invocation reports for hostname h with outcome ok
Reports(h, ok) == \E i \in 1..Len(output) : output[i] = Entry(h, ok)

\* the i-th call is a Routes.add answered with the conflict code
Conflict(i) == calls[i].fn = "Routes.add" /\ calls[i].res = "CF-RouteHostTaken"

\* C4 as stated: whenever Routes.add for h answers CF-RouteHostTaken, the
\* lookup of h and the association of the found record follow and h is
\* reported with ok = true.
ConflictAlwaysRecovered ==
    (pc = "done" /\ op = "map") =>
        \A i \in 1..Len(calls) : Conflict(i) =>
            /\ i + 2 <= Len(calls)
            /\ calls[i + 1].fn = "Routes.getRoutes" /\ calls[i + 1].host = calls[i].host
            /\ calls[i + 2].fn = "Apps.associateRoute" /\ calls[i + 2].guid = calls[i + 1].guid
            /\ Reports(calls[i].host, TRUE)

\* C4 amended: after a conflict on h the next call is the lookup of h; if the
\* lookup returns a record, the next call associates that record's id, a
\* route with host h, with the application; h is reported with ok = true
\* exactly when that association succeeds and with ok = false otherwise, and
\* the operation as a whole is not rejected.
ConflictRecovery ==
    \A i \in 1..Len(calls) : Conflict(i) =>
        LET h == calls[i].host
            looked == i + 1 <= Len(calls)
            found == looked /\ calls[i + 1].res = "ok"
            tried == found /\ i + 2 <= Len(calls)
        IN /\ pc /= "rejected"
           /\ IF looked
              THEN calls[i + 1].fn = "Routes.getRoutes" /\ calls[i + 1].host = h
              ELSE pc = "find" /\ Head(todo) = h
           /\ found =>
                /\ \E r \in platform : r.guid = calls[i + 1].guid /\ r.host = h
                /\ IF tried
                   THEN /\ calls[i + 2].fn = "Apps.associateRoute"
                        /\ calls[i + 2].guid = calls[i + 1].guid
                        /\ calls[i + 2].host = h
                   ELSE pc = "associate" /\ Head(todo) = h /\ route[1].guid = calls[i + 1].guid
           /\ pc = "done" =>
                IF tried /\ calls[i + 2].res = "ok"
                THEN Reports(h, TRUE) /\ ~Reports(h, FALSE)
                ELSE Reports(h, FALSE) /\ ~Reports(h, TRUE)

\* a conflict on a-b was recovered: lookup, association, and a-b reported ok
ConflictRecoveryWitness ==
    /\ pc = "done"
    /\ op = "map"
    /\ \E i \in 1..Len(calls) :
         /\ Conflict(i)
         /\ calls[i].host = HostAB
         /\ i + 2 <= Len(calls)
         /\ calls[i + 1].res = "ok"
         /\ calls[i + 2].res = "ok"
    /\ Reports(HostAB, TRUE)

\* C5: destroy vs. unassociate. An unmap with deleteAfterUnmap unset issues
\* Apps.unassociateRoute calls only, never Routes.remove, and every route
\* record that existed when it started still exists; an unmap with
\* deleteAfterUnmap = true has issued, once its executor is through, a
\* Routes.remove call for each live route whose host was requested, and no
\* Apps.unassociateRoute call.
DestroyOnlyOnRequest ==
    op = "unmap" =>
        /\ request.deleteAfterUnmap.t = "undefined" =>
             /\ CallsTo("Routes.remove") = {}
             /\ \A i \in 3..Len(calls) : calls[i].fn = "Apps.unassociateRoute"
             /\ before \subseteq platform
        /\ (request.deleteAfterUnmap.t = "true" /\ pc \in {"report", "done"}) =>
             /\ CallsTo("Apps.unassociateRoute") = {}
             /\ \A k \in 1..Len(snapshot) : snapshot[k].host \in Range(Accepted) =>
                  \E i \in CallsTo("Routes.remove") : calls[i].guid = snapshot[k].guid

\* an unmap with deleteAfterUnmap unset unassociated a route, which still exists
DestroyOnlyOnRequestWitness ==
    /\ pc = "done"
    /\ op = "unmap"
    /\ request.deleteAfterUnmap.t = "undefined"
    /\ \E i \in CallsTo("Apps.unassociateRoute") :
         /\ calls[i].res = "ok"
         /\ calls[i].guid \in Guids(platform)
         /\ calls[i].guid \notin Range(bound)
    /\ Reports(HostAB, TRUE)

\* the validator has answered the request of the invocation
Validated == pc \notin {"idle", "validate"}

\* C6: validation boundary. Whenever the validator rejects a list, map or
\* unmap request, the invocation is rejected with the validator's message and
\* it has issued no remote call and changed no route; in particular a map
\* with neither org/space nor routes is rejected with no remote call.
ValidationBoundary ==
    /\ (Validated /\ ~Validator(op, request).ok) =>
           /\ pc = "rejected"
           /\ error = Validator(op, request).err
           /\ error \in ValidationErrors
           /\ calls = <<>>
           /\ platform = before
    /\ ( /\ Validated
         /\ op = "map"
         /\ validateArgsBasic(request) = ""
         /\ ~Truthy(request.org) /\ ~Truthy(request.space) /\ ~Truthy(request.routes) ) =>
           /\ pc = "rejected"
           /\ error = E_orgSpaceOrRoutes
           /\ calls = <<>>

\* a map with neither org/space nor routes was rejected before any call
ValidationBoundaryWitness ==
    /\ pc = "rejected"
    /\ op = "map"
    /\ ~Truthy(request.org) /\ ~Truthy(request.space) /\ ~Truthy(request.routes)
    /\ error = E_orgSpaceOrRoutes
    /\ calls = <<>>

\* the map validator got as far as computing the candidate set
ReachedCandidates == Validator("map", request).err \in {"", E_noValidRoutes}

\* C7: an empty add set is rejected. If the candidate set of a map request is
\* empty after dropping the invalid and the too long entries, the map call
\* is rejected with the 'no valid route names to map' error and has made no
\* remote call.
EmptyAddSetRejected ==
    ( /\ Validated
      /\ op = "map"
      /\ ReachedCandidates
      /\ CandidateRoutes(Validator("map", request).args.routes.v) = <<>> ) =>
        /\ pc = "rejected"
        /\ error = E_noValidRoutes
        /\ calls = <<>>

\* the unmap validator got as far as computing the requested set
ReachedDeletions == Validator("unmap", request).err \in {"", E_noRoutes}

\* C8: an empty delete set is rejected. If the routes array of an unmap
\* request is empty after trimming and dropping empty strings, the unmap call
\* is rejected with the 'no route names to unmap' error and has made no
\* remote call.
EmptyDeleteSetRejected ==
    ( /\ Validated
      /\ op = "unmap"
      /\ ReachedDeletions
      /\ TrimmedRoutes(request.routes.v) = <<>> ) =>
        /\ pc = "rejected"
        /\ error = E_noRoutes
        /\ calls = <<>>

ExecutorPcs == {"create", "find", "associate", "remove"}

\* the hostname of an element of the executor's input
InputHost(x) == IF op = "map" THEN x ELSE x.host

\* the remote call that settles an element of the executor's input succeeded
Settled(x) ==
    IF op = "map"
    THEN \E k \in CallsTo("Apps.associateRoute") : calls[k].host = x /\ calls[k].res = "ok"
    ELSE \E k \in CallsTo("Routes.remove") \cup CallsTo("Apps.unassociateRoute") :
            calls[k].guid = x.guid /\ calls[k].res = "ok"

\* C9: per-route error isolation. Once the executor has started, its list
\* holds one entry for each element of its input processed so far, in order,
\* with ok = false exactly for the elements whose own calls failed; what is
\* not yet processed is the rest of the input, a next step is always
\* possible, the pass ends with every element processed, and no failure
\* rejects the invocation.
ErrorIsolation ==
    /\ (op \in {"map", "unmap"} /\ pc \in ExecutorPcs \cup {"report", "done"}) =>
          LET input == ExecutorInput(op, snapshot, request.appname.v, Accepted)
          IN /\ Len(list) <= Len(input)
             /\ todo = SubSeq(input, Len(list) + 1, Len(input))
             /\ \A i \in 1..Len(list) :
                  /\ list[i].route = InputHost(input[i])
                  /\ list[i].ok = Settled(input[i])
             /\ pc \in {"report", "done"} => Len(list) = Len(input)
             /\ pc \in ExecutorPcs => todo /= <<>>
             /\ pc /= "done" =>
                  ENABLED (RoutesAdd \/ RoutesGetRoutes \/ AppsAssociateRoute \/ DeleteRoute \/ Report)
    /\ pc = "rejected" => list = <<>> /\ Len(calls) <= 2

\* a pass recorded a failure for one route and went on to succeed on a later one
ErrorIsolationWitness ==
    /\ pc = "done"
    /\ \E i, j \in 1..Len(list) : i < j /\ ~list[i].ok /\ list[j].ok
    /\ Len(output) = Len(list)

\* C10 as stated: map or unmap is rejected only when the validator rejected
\* the request or the application lookup did not yield exactly one record.
RejectsOnlyBeforeLookup ==
    (op \in {"map", "unmap"} /\ pc = "rejected") =>
        \/ ~Validator(op, request).ok
        \/ Len(calls) = 1 /\ calls[1].fn = "Apps.getApps"

\* C10 amended: map or unmap is rejected exactly when the validator rejected
\* the request, the application lookup failed or did not yield exactly one
\* record, or the listing of the application's routes failed; once the live
\* routes are listed, whatever remote call fails, the invocation is not
\* rejected and ends resolved with a status array.
PropagationPolicy ==
    op \in {"map", "unmap"} =>
        /\ pc = "rejected" <=>
             \/ Validated /\ ~Validator(op, request).ok
             \/ Len(calls) = 1 /\ calls[1].fn = "Apps.getApps" /\ calls[1].res /= "ok"
             \/ Len(calls) = 2 /\ calls[2].fn = "Apps.getAppRoutes" /\ calls[2].res = "error"
        /\ (Len(calls) >= 2 /\ calls[2].res = "ok") =>
             /\ pc \in ExecutorPcs \cup {"report", "done"}
             /\ pc = "done" => Len(output) >= Len(list)

\* an unmap in which a route's call failed resolved with a status array
PropagationPolicyWitness ==
    /\ pc = "done"
    /\ op = "unmap"
    /\ \E i \in 3..Len(calls) : calls[i].res = "error"
    /\ \E i \in 1..Len(output) : ~output[i].ok


\* the application lookup returned zero records or more than one
LookupFailed == Len(calls) >= 1 /\ calls[1].fn = "Apps.getApps" /\ calls[1].res \in {"none", "many"}

\* C11: when Apps.getApps returns zero records or more than one, list, map and
\* unmap reject with the not-found message; the lookup is the only remote call
\* issued (no route listing, creation, association, unassociation or removal)
\* and the platform's routes and the application's routes are as they were
LookupAborts ==
    LookupFailed =>
        /\ pc = "rejected"
        /\ error = E_appNotFound
        /\ Len(calls) = 1
        /\ pending = <<>>
        /\ platform = before
        /\ bound = boundBefore

LookupAbortsWitness ==
    /\ LookupFailed
    /\ calls[1].res = "many"
    /\ op = "unmap"
    /\ Accepted /= <<>>
    /\ \E i \in 1..Len(bound) : RouteOf(bound[i]).host \in Range(Accepted)

ExecutorFns ==
    {"Routes.add", "Routes.getRoutes", "Apps.associateRoute", "Routes.remove",
     "Apps.unassociateRoute"}

\* what tells the elements of the executor's input apart, in the input and in
\* a call: the host in map, the route's guid in unmap
InputKey(x) == IF op = "map" THEN x ELSE x.guid
CallKey(c) == IF op = "map" THEN c.host ELSE c.guid

\* C12: strict sequencing. In a map or unmap invocation at most one remote
\* call is outstanding; an outstanding call of the executor is for the first
\* element of its input with no recorded outcome, every call answered so far
\* is for that element or an element already recorded, and the first call of
\* an element's sequence is issued only when all answered calls belong to
\* recorded elements.
StrictSequencing ==
    op \in {"map", "unmap"} =>
        /\ Len(pending) <= 1
        /\ pc \in {"idle", "validate", "report", "done", "rejected"} => pending = <<>>
        /\ \A p \in Range(pending) : p.fn \in ExecutorFns =>
             LET input == ExecutorInput(op, snapshot, request.appname.v, Accepted)
                 n == Len(list)
             IN /\ n < Len(input)
                /\ CallKey(p) = InputKey(input[n + 1])
                /\ \A k \in 3..Len(calls) :
                     \E j \in 1..(n + 1) : CallKey(calls[k]) = InputKey(input[j])
                /\ p.fn \in {"Routes.add", "Routes.remove", "Apps.unassociateRoute"} =>
                     \A k \in 3..Len(calls) :
                        \E j \in 1..n : CallKey(calls[k]) = InputKey(input[j])

\* the conflict-recovery lookup of a second route is outstanding, the first
\* route's outcome being recorded
StrictSequencingWitness ==
    /\ op = "map"
    /\ Len(list) = 1
    /\ Len(pending) = 1
    /\ pending[1].fn = "Routes.getRoutes"
    /\ pending[1].host /= list[1].route

\* the live route list has been obtained
Listed == Len(calls) >= 2 /\ calls[2].res = "ok"

\* C13: no re-creation of a live route. In map, every Routes.add call, every
\* conflict lookup and every Apps.associateRoute call, answered or
\* outstanding, is for a requested hostname that is not a host of the live
\* route snapshot, and no hostname gets two Routes.add calls.
NoRecreation ==
    (op = "map" /\ Listed) =>
        LET accepted == Range(Accepted)
            live == Hosts(snapshot)
        IN /\ \A k \in 3..Len(calls) :
                calls[k].host \notin live /\ calls[k].host \in accepted
           /\ \A p \in Range(pending) :
                p.host \notin live /\ p.host \in accepted
           /\ \A k, l \in CallsTo("Routes.add") : calls[k].host = calls[l].host => k = l
           /\ \A p \in Range(pending) : p.fn = "Routes.add" =>
                \A k \in CallsTo("Routes.add") : calls[k].host /= p.host

\* a map of a-b and c-d where a-b is live, and not first in the snapshot:
\* c-d is created, a-b gets no call
NoRecreationWitness ==
    /\ op = "map"
    /\ pc = "done"
    /\ Range(Accepted) = {HostAB, HostCD}
    /\ Len(snapshot) >= 2
    /\ snapshot[2].host = HostAB
    /\ \E k \in CallsTo("Routes.add") : calls[k].host = HostCD
    /\ \A k \in 3..Len(calls) : calls[k].host /= HostAB

\* the live routes whose host is the application name
Primaries == {i \in 1..Len(snapshot) : snapshot[i].host = request.appname.v}

\* the Routes.add calls of the invocation, answered or outstanding
AddCalls ==
    {calls[k] : k \in CallsTo("Routes.add")} \cup {p \in Range(pending) : p.fn = "Routes.add"}

\* C14 as stated: every Routes.add call of map carries the domain and space
\* ids of a live route whose host is the application name.
IdsOfPrimaryRoute ==
    op = "map" =>
        \A c \in AddCalls :
            \E i \in Primaries :
                /\ c.domain_guid = snapshot[i].domain_guid
                /\ c.space_guid = snapshot[i].space_guid

\* C14 amended: every Routes.add call of map is for a requested hostname and
\* carries the domain and space ids of the live route whose host is the
\* application name, both from that one record, or no ids when the live list
\* has no such route; all the Routes.add calls of the pass carry the same ids.
IdsDerivation ==
    (op = "map" /\ AddCalls /= {}) =>
        LET accepted == Range(Accepted)
        IN /\ \A c \in AddCalls :
                /\ c.host \in accepted
                /\ IF Primaries = {}
                   THEN c.domain_guid = NoGuid /\ c.space_guid = NoGuid
                   ELSE \E i \in Primaries :
                           /\ c.domain_guid = snapshot[i].domain_guid
                           /\ c.space_guid = snapshot[i].space_guid
           /\ \A c, d \in AddCalls :
                c.domain_guid = d.domain_guid /\ c.space_guid = d.space_guid

\* a hostname is created with the ids of the route named after the
\* application, the last live route being one of another domain and space
IdsDerivationWitness ==
    /\ op = "map"
    /\ pc = "done"
    /\ Primaries /= {}
    /\ \E c \in AddCalls :
         /\ c.res = "ok"
         /\ Reports(c.host, TRUE)
         /\ c.domain_guid /= snapshot[Len(snapshot)].domain_guid
         /\ c.space_guid /= snapshot[Len(snapshot)].space_guid

HostBefore(g) == (CHOOSE r \in before : r.guid = g).host

\* C16: unmap touches only requested routes. Every call unmap issues after
\* the listing is a Routes.remove or an Apps.unassociateRoute on the guid of
\* a live route of the snapshot whose host is in the requested set; every
\* route record and every route of the application whose host was not
\* requested is still there, and nothing is created or associated. Map
\* issues no Routes.remove and no Apps.unassociateRoute, and no route record
\* or route of the application disappears.
UnmapOnlyRequested ==
    /\ (op = "unmap" /\ Listed) =>
          LET accepted == Range(Accepted)
          IN /\ \A c \in {calls[k] : k \in 3..Len(calls)} \cup Range(pending) :
                  /\ c.fn \in {"Routes.remove", "Apps.unassociateRoute"}
                  /\ \E i \in 1..Len(snapshot) :
                       /\ snapshot[i].guid = c.guid
                       /\ snapshot[i].host = c.host
                       /\ snapshot[i].host \in accepted
             /\ \A r \in before : r.host \notin accepted => r \in platform
             /\ \A g \in Range(boundBefore) :
                  HostBefore(g) \notin accepted => g \in Range(bound)
             /\ platform \subseteq before
             /\ Range(bound) \subseteq Range(boundBefore)
    /\ op = "map" =>
          /\ \A c \in Range(calls) \cup Range(pending) :
               c.fn \notin {"Routes.remove", "Apps.unassociateRoute"}
          /\ before \subseteq platform
          /\ Range(boundBefore) \subseteq Range(bound)

\* an unmap removed the requested routes of a live list of three, and the
\* route that was not requested is still the application's
UnmapOnlyRequestedWitness ==
    /\ op = "unmap"
    /\ pc = "done"
    /\ Len(snapshot) >= 3
    /\ \E k \in CallsTo("Routes.remove") : calls[k].res = "ok"
    /\ \E i \in 1..Len(snapshot) :
         snapshot[i].host \notin Range(Accepted) /\ snapshot[i].guid \in Range(bound)
    /\ platform /= before

\* C17: validator purity. Once the validator has run, whether it resolved or
\* rejected, the argument object the caller passed, its routes array
\* included, is as it was before.
ValidatorPure == pc \notin {"idle", "validate"} => args = request

\* org + "-" + space with org and space non-empty over [0-9A-Za-z], of at
\* most 63 characters
WellFormed(h) ==
    /\ Len(h) <= MaxRouteLen
    /\ \E i \in 2..(Len(h) - 1) :
         /\ h[i] = "-"
         /\ \A j \in (1..Len(h)) \ {i} : h[j] \in Alnum

\* the {org, space} entries a map request gives: those of its routes array,
\* then the pair given as org and space
RequestedPairs ==
    (IF IsArray(request.routes) THEN Range(request.routes.v) ELSE {})
        \cup (IF Truthy(request.org) /\ Truthy(request.space)
              THEN {Pair(request.org, request.space)} ELSE {})

\* the combined name of an entry whose segments are strings
Combined(r) == r.v[1].v \o <<"-">> \o r.v[2].v

\* C18: hostname well-formedness. Every hostname of the candidate set the map
\* validator accepts, every host of a Routes.add call and every route name of
\* map's status is well formed; the accepted set holds exactly the combined
\* names of the entries of the routes array and of the org/space pair that
\* are well formed, so a name of 63 characters is accepted and one of 64 is
\* dropped.
HostnamesWellFormed ==
    (op = "map" /\ Validated) =>
        LET v == Validator(op, request)
            accepted == Range(v.set)
        IN v.ok =>
            /\ \A h \in accepted : WellFormed(h)
            /\ \A c \in AddCalls : c.host \in accepted
            /\ \A i \in 1..Len(output) : output[i].route \in accepted
            /\ \A r \in RequestedPairs :
                 (r.t = "pair" /\ r.v[1].t = "string" /\ r.v[2].t = "string") =>
                    /\ WellFormed(Combined(r)) => Combined(r) \in accepted
                    /\ Len(Combined(r)) = MaxRouteLen + 1 => Combined(r) \notin accepted

\* a map whose request gives a name of 63 characters and one of 64 reported
\* the first, created through Routes.add, and not the second
HostnamesWellFormedWitness ==
    /\ op = "map"
    /\ pc = "done"
    /\ \E r, q \in RequestedPairs :
         /\ r.t = "pair" /\ q.t = "pair"
         /\ Len(Combined(r)) = MaxRouteLen
         /\ Len(Combined(q)) = MaxRouteLen + 1
         /\ \E c \in AddCalls : c.host = Combined(r) /\ c.res = "ok"
         /\ Reports(Combined(r), TRUE)
         /\ \A i \in 1..Len(output) : output[i].route /= Combined(q)

\* the routes the executor goes through, in processing order: in map
\* the requested set, in its iteration order, without the live hostnames; in
\* unmap the live route list, in its order, without the routes not requested
Processing(accepted) ==
    IF op = "map"
    THEN SelectSeq(accepted, LAMBDA h : h \notin Hosts(snapshot))
    ELSE SelectSeq(snapshot, LAMBDA r : r.host \in Range(accepted))

\* the position in the processing order of the route a call of the executor
\* is for
Position(processing, c) ==
    CHOOSE j \in 1..Len(processing) : InputKey(processing[j]) = CallKey(c)

\* the call that ends a route's sequence with success
Concludes(c) ==
    c.res = "ok" /\ c.fn \in {"Apps.associateRoute", "Routes.remove", "Apps.unassociateRoute"}

\* C19: result ordering. The executor's list follows the processing order;
\* the calls of the executor come route after route in that same order, and
\* the i-th entry is ok exactly when the i-th sequence of calls ended with
\* success; the status is that list followed by the left over hostnames.
ResultOrdering ==
    (op \in {"map", "unmap"} /\ Listed) =>
        LET accepted == Accepted
            processing == Processing(accepted)
            position == [k \in 3..Len(calls) |-> Position(processing, calls[k])]
        IN /\ Len(list) <= Len(processing)
           /\ \A i \in 1..Len(list) : list[i].route = InputHost(processing[i])
           /\ \A k \in 3..Len(calls) :
                \E j \in 1..Len(processing) : InputKey(processing[j]) = CallKey(calls[k])
           /\ \A k, l \in 3..Len(calls) : k < l => position[k] <= position[l]
           /\ \A i \in 1..Len(list) :
                list[i].ok = (\E k \in 3..Len(calls) : position[k] = i /\ Concludes(calls[k]))
           /\ pc = "done" =>
                /\ Len(output) >= Len(list)
                /\ SubSeq(output, 1, Len(list)) = list
                /\ \A i \in (Len(list) + 1)..Len(output) :
                     /\ output[i].route \in Range(accepted)
                     /\ \A j \in 1..Len(list) : list[j].route /= output[i].route

\* an unmap of two live routes reported them in the order of the live list,
\* the reverse of the order of the request
ResultOrderingWitness ==
    /\ op = "unmap"
    /\ pc = "done"
    /\ Len(Accepted) = 2
    /\ Len(list) = 2
    /\ list[1].route = Accepted[2]
    /\ list[2].route = Accepted[1]
    /\ list[1].ok /= list[2].ok

\* a successful Apps.associateRoute call for host h on the route this
\* invocation created for h, or on the one its conflict lookup returned
AssociatedHere(h) ==
    \E k \in CallsTo("Apps.associateRoute") :
        /\ calls[k].host = h
        /\ calls[k].res = "ok"
        /\ k > 3
        /\ \/ /\ calls[k - 1].fn = "Routes.add"
              /\ calls[k - 1].host = h
              /\ calls[k - 1].res = "ok"
              /\ calls[k].guid = RouteRecord(h, calls[k - 1].domain_guid, calls[k - 1].space_guid).guid
           \/ /\ calls[k - 1].fn = "Routes.getRoutes"
              /\ calls[k - 1].host = h
              /\ calls[k - 1].res = "ok"
              /\ calls[k].guid = calls[k - 1].guid

\* a call that fails its route: any failure but the conflict on creation
Fails(c) == c.fn \in ExecutorFns /\ c.res \notin {"ok", "CF-RouteHostTaken"}

\* C20: report soundness. In map, an entry of the executor is ok only if an
\* Apps.associateRoute call on the route created or recovered for its
\* hostname succeeded in this invocation, and a hostname one of whose calls
\* failed (creation other than with the conflict code, lookup, association)
\* has an entry with ok = false and none with ok = true. In unmap, the entry
\* of a matched route is ok only if the Routes.remove or
\* Apps.unassociateRoute call on that route's guid succeeded in this
\* invocation. The status keeps these entries as they are.
ReportSound ==
    (op \in {"map", "unmap"} /\ Listed) =>
        LET processing == Processing(Accepted)
        IN /\ op = "map" =>
                /\ \A i \in 1..Len(list) : list[i].ok => AssociatedHere(list[i].route)
                /\ \A k \in 3..Len(calls) : Fails(calls[k]) =>
                     /\ \E i \in 1..Len(list) : list[i] = Entry(calls[k].host, FALSE)
                     /\ \A i \in 1..Len(list) : list[i] /= Entry(calls[k].host, TRUE)
           /\ op = "unmap" =>
                /\ \A i \in 1..Len(list) : list[i].ok =>
                     \E k \in CallsTo("Routes.remove") \cup CallsTo("Apps.unassociateRoute") :
                        /\ calls[k].guid = processing[i].guid
                        /\ calls[k].host = list[i].route
                        /\ calls[k].res = "ok"
                /\ \A k \in 3..Len(calls) : Fails(calls[k]) =>
                     \E i \in 1..Len(list) :
                        processing[i].guid = calls[k].guid /\ list[i] = Entry(calls[k].host, FALSE)
           /\ pc = "done" => \A i \in 1..Len(list) : output[i] = list[i]

\* a map recovered one hostname from a conflict and associated it, and
\* created the route of another whose association failed
ReportSoundWitness ==
    /\ op = "map"
    /\ pc = "done"
    /\ \E i, j \in 1..Len(output) :
         /\ output[i].ok
         /\ ~output[j].ok
         /\ \E k \in CallsTo("Routes.getRoutes") : calls[k].host = output[i].route /\ calls[k].res = "ok"
         /\ \E k \in CallsTo("Routes.add") : calls[k].host = output[j].route /\ calls[k].res = "ok"
         /\ \E k \in CallsTo("Apps.associateRoute") : calls[k].host = output[j].route /\ calls[k].res = "error"

\* Routes.add for host h was answered with the conflict code
Conflicted(h) ==
    \E k \in CallsTo("Routes.add") : calls[k].host = h /\ calls[k].res = "CF-RouteHostTaken"

\* C21 as stated: when a map invocation ends, every hostname for which a
\* route was created by another actor after the invocation listed the routes,
\* and whose creation the platform answered with the conflict code, is
\* reported ok = true.
StaleAlwaysAbsorbed ==
    (op = "map" /\ pc = "done") =>
        \A r \in outOfBand : Conflicted(r.host) => Reports(r.host, TRUE)

\* C21 amended: a map invocation lists the application's routes once, and a
\* route created by another actor afterwards is not in its snapshot; the
\* invocation is never rejected and always has a next step until it ends;
\* the conflict lookup is issued exactly for the hostnames whose Routes.add
\* was answered with the conflict code; when the invocation ends, each
\* hostname created out of band has one entry, ok = true exactly when an
\* Apps.associateRoute call on the route created or found for it succeeded,
\* ok = false when the lookup or the association failed; and no two route
\* records share host and domain.
StaleAbsorbed ==
    /\ op = "map" =>
          /\ Cardinality(CallsTo("Apps.getAppRoutes")) <= 1
          /\ \A r \in outOfBand : r.host \notin Hosts(snapshot)
          /\ Listed => pc /= "rejected"
          /\ pc \in {"create", "find", "associate", "report"} =>
               ENABLED (RoutesAdd \/ RoutesGetRoutes \/ AppsAssociateRoute \/ Report)
          /\ \A k \in CallsTo("Routes.getRoutes") :
               /\ calls[k - 1].fn = "Routes.add"
               /\ calls[k - 1].host = calls[k].host
               /\ calls[k - 1].res = "CF-RouteHostTaken"
          /\ \A k \in CallsTo("Routes.add") :
               (calls[k].res = "CF-RouteHostTaken" /\ k < Len(calls)) =>
                    calls[k + 1].fn = "Routes.getRoutes" /\ calls[k + 1].host = calls[k].host
          /\ pc = "done" =>
               \A r \in outOfBand :
                  /\ Cardinality({i \in 1..Len(output) : output[i].route = r.host}) = 1
                  /\ Reports(r.host, TRUE) = AssociatedHere(r.host)
                  /\ Reports(r.host, FALSE) = ~AssociatedHere(r.host)
    /\ \A r, q \in platform :
          (r.host = q.host /\ r.domain_guid = q.domain_guid) => r = q

\* a map ended after another actor created the route of a requested hostname
\* in the application's domain: Routes.add met the conflict, the lookup found
\* the route, the association succeeded and the hostname is reported ok
StaleAbsorbedWitness ==
    /\ op = "map"
    /\ pc = "done"
    /\ \E r \in outOfBand :
         /\ r \notin before
         /\ r \in platform
         /\ Conflicted(r.host)
         /\ Reports(r.host, TRUE)
         /\ r.guid \in Range(bound)
         /\ \A q \in platform : q.host = r.host => q = r
====
